---- MODULE Spec2Model ----
(***************************************************************************)
(* Model of package httpreaderat: the HTTP range reader (New, ReadAt),     *)
(* the Content-Range parser (contentrange.Parse) and the Store hierarchy   *)
(* (StoreMemory, StoreFile, LimitedStore).                                 *)
(*                                                                         *)
(* Strings that the code inspects character by character (Content-Range,   *)
(* Range, ETag) are sequences of one-character strings.  int64 is modelled *)
(* as a two's-complement integer of IntBits bits.                          *)
(***************************************************************************)
EXTENDS Integers, Sequences, FiniteSets, TLC

\* ------------------------------------------------------------------ bounds
\* Width of the modelled int64 (two's complement).
IntBits == 6
\* Longest caller buffer.
MaxLen == 2
\* Largest "ordinary" offset a caller reads at (besides the extreme ones).
MaxOff == 2
\* Length of the remote resource the server serves.
DataLen == 2

\* ------------------------------------------------------------- int64
Pow2(n) == 2 ^ n
MaxInt == Pow2(IntBits - 1) - 1
MinInt == 0 - Pow2(IntBits - 1)
\* Result of an int64 operation whose mathematical value is x.
Wrap(x) == ((x - MinInt) % Pow2(IntBits)) + MinInt

Min(a, b) == IF a < b THEN a ELSE b
Max(a, b) == IF a < b THEN b ELSE a

\* ------------------------------------------------------------- strings
Nil == "nil"
Str_bytes == <<"b", "y", "t", "e", "s">>
Str_star == <<"*">>
Digits == <<"0", "1", "2", "3", "4", "5", "6", "7", "8", "9">>
DigitSet == {Digits[i] : i \in 1..10}
DigitVal(c) == (CHOOSE i \in 1..10 : Digits[i] = c) - 1

\* strconv.Itoa / the %d verb of fmt.Sprintf
RECURSIVE UDec(_)
UDec(n) == IF n < 10 THEN <<Digits[n + 1]>> ELSE UDec(n \div 10) \o <<Digits[(n % 10) + 1]>>
FmtD(n) == IF n < 0 THEN <<"-">> \o UDec(0 - n) ELSE UDec(n)

\* unicode.IsSpace, restricted to the ASCII white space
IsSpace(c) == c \in {" ", "\t", "\n", "\r"}
\* Mutant of split: "-" does not separate tokens.
split_NoDash(c) == IsSpace(c) \/ c = "/"

\* the split function literal of Parse
split(c) == IsSpace(c) \/ c \in {"-", "/"}

\* strings.FieldsFunc(str, split): the maximal runs of non-separator characters
RECURSIVE FieldsAcc(_, _, _)
FieldsAcc(str, cur, acc) ==
  IF str = <<>> THEN (IF cur = <<>> THEN acc ELSE Append(acc, cur))
  ELSE IF split(Head(str))
       THEN FieldsAcc(Tail(str), <<>>, IF cur = <<>> THEN acc ELSE Append(acc, cur))
       ELSE FieldsAcc(Tail(str), Append(cur, Head(str)), acc)
FieldsFunc(str) == FieldsAcc(str, <<>>, <<>>)

\* strconv.ParseInt(s, 10, 64): [val, err]; err is Nil, "syntax" or "range".
RECURSIVE DecVal(_, _)
DecVal(s, acc) ==
  IF s = <<>> THEN acc
  ELSE IF acc > MaxInt + 1 THEN acc
  ELSE DecVal(Tail(s), acc * 10 + DigitVal(Head(s)))
ParseInt(s) ==
  LET neg == s # <<>> /\ Head(s) = "-"
      signed == s # <<>> /\ Head(s) \in {"+", "-"}
      ds == IF signed THEN Tail(s) ELSE s
  IN IF ds = <<>> \/ \E i \in 1..Len(ds) : ds[i] \notin DigitSet
       THEN [val |-> 0, err |-> "syntax"]
     ELSE LET v == DecVal(ds, 0)
          IN IF neg
               THEN (IF v > MaxInt + 1 THEN [val |-> MinInt, err |-> "range"]
                     ELSE [val |-> 0 - v, err |-> Nil])
               ELSE (IF v > MaxInt THEN [val |-> MaxInt, err |-> "range"]
                     ELSE [val |-> v, err |-> Nil])

\* ---------------------------------------------------- contentrange.Parse
\* Result of Parse: the three values and the error.  err = "panic" is the
\* run-time panic of indexing fields[0] of an empty slice.
PR(f, l, n, e) == [first |-> f, last |-> l, length |-> n, err |-> e]

Parse(str) ==
  LET fields == FieldsFunc(str)
  IN IF Len(fields) = 0 THEN PR(-1, -1, -1, "panic")
     ELSE IF fields[1] # Str_bytes THEN PR(-1, -1, -1, "ErrUnsupportedUnit")
     ELSE IF Len(fields) = 4 THEN
       LET first == ParseInt(fields[2])
           last == ParseInt(fields[3])
           length == ParseInt(fields[4])
       IN IF first.err # Nil THEN PR(0, 0, 0, "can't parse first")
          ELSE IF last.err # Nil THEN PR(0, 0, 0, "can't parse first")
          ELSE IF fields[4] # Str_star
            THEN (IF length.err # Nil THEN PR(-1, -1, -1, "can't parse length")
                  ELSE PR(first.val, last.val, length.val, Nil))
            ELSE PR(first.val, last.val, -1, Nil)
     ELSE IF Len(fields) = 3 THEN
       LET length == ParseInt(fields[3])
       IN IF fields[2] # Str_star THEN PR(-1, -1, -1, "ErrUnsupportedField")
          ELSE IF length.err # Nil THEN PR(0, 0, 0, "can't parse length")
          ELSE PR(-1, -1, length.val, Nil)
     ELSE PR(-1, -1, -1, "ErrParse")

\* ------------------------------------------------------------------ Store
\* A source stream (io.Reader): its bytes, then io.EOF (err = FALSE) or a
\* read error (err = TRUE).
Stream(data, err) == [data |-> data, err |-> err]
Take(s, n) == SubSeq(s, 1, Min(n, Len(s)))
Drop(s, n) == SubSeq(s, Min(n, Len(s)) + 1, Len(s))

\* bs == nil
NoStore == [kind |-> "none"]
\* NewStoreMemory: rdr == nil is has = FALSE
NewStoreMemory == [kind |-> "mem", has |-> FALSE, data |-> <<>>]
\* NewStoreFile: tmpfile == nil is has = FALSE; data is the temp file's content
\* and files the number of temp files the store created that still exist
\* (ioutil.TempFile adds one, os.Remove takes one away)
NewStoreFile == [kind |-> "file", has |-> FALSE, data |-> <<>>, size |-> 0, files |-> 0]
\* NewLimitedStore: s is the active reference, "nil", "primary" or "secondary"
NewLimitedStore(primary, limit, secondary) ==
  [kind |-> "limited", s |-> "nil", primary |-> primary, limit |-> limit,
   secondary |-> secondary]

\* Result of Store.ReadAt: n, the bytes copied into p[0:n], and the error.
RA(n, bytes, err) == [n |-> n, bytes |-> bytes, err |-> err]

\* bytes.Reader.ReadAt over the buffer s
BytesReaderReadAt(s, plen, off) ==
  IF off < 0 THEN RA(0, <<>>, "negative offset")
  ELSE IF off >= Len(s) THEN RA(0, <<>>, "EOF")
  ELSE LET n == Min(plen, Len(s) - off)
       IN RA(n, SubSeq(s, off + 1, off + n), IF n < plen THEN "EOF" ELSE Nil)

\* os.File.ReadAt over the file content s
FileReadAt(s, plen, off) ==
  IF off < 0 THEN RA(0, <<>>, "negative offset")
  ELSE IF plen = 0 THEN RA(0, <<>>, Nil)
  ELSE LET n == Min(plen, Max(0, Len(s) - off))
       IN RA(n, SubSeq(s, off + 1, off + n), IF n < plen THEN "EOF" ELSE Nil)

StoreMemory_ReadAt(s, plen, off) ==
  IF ~s.has THEN RA(0, <<>>, Nil) ELSE BytesReaderReadAt(s.data, plen, off)

StoreFile_ReadAt(s, plen, off) ==
  IF ~s.has THEN RA(0, <<>>, Nil) ELSE FileReadAt(s.data, plen, off)

RECURSIVE Store_ReadAt(_, _, _)
\* Mutant of LimitedStore_ReadAt: reads the primary whatever the active store.
LimitedStore_ReadAt_Primary(s, plen, off) ==
  IF s.s = "nil" THEN RA(0, <<>>, Nil) ELSE Store_ReadAt(s.primary, plen, off)

LimitedStore_ReadAt(s, plen, off) ==
  IF s.s = "nil" THEN RA(0, <<>>, Nil)
  ELSE Store_ReadAt(IF s.s = "primary" THEN s.primary ELSE s.secondary, plen, off)

\* dynamic dispatch of Store.ReadAt; a call on a nil Store panics
Store_ReadAt(s, plen, off) ==
  CASE s.kind = "mem" -> StoreMemory_ReadAt(s, plen, off)
    [] s.kind = "file" -> StoreFile_ReadAt(s, plen, off)
    [] s.kind = "limited" -> LimitedStore_ReadAt(s, plen, off)
    [] OTHER -> RA(0, <<>>, "panic")

\* Mutant of StoreMemory_Close: the buffer is kept.
StoreMemory_Close_Keep(s) == s

StoreMemory_Close(s) == [s EXCEPT !.has = FALSE, !.data = <<>>]

StoreFile_Close(s) ==
  IF ~s.has THEN s
  ELSE [s EXCEPT !.has = FALSE, !.data = <<>>, !.size = 0, !.files = @ - 1]

RECURSIVE Store_Close(_)
\* Mutant of LimitedStore_Close: the primary is closed, whichever store is
\* active.
LimitedStore_Close_Primary(s) ==
  IF s.s = "nil" THEN s
  ELSE [s EXCEPT !.primary = Store_Close(s.primary), !.s = "nil"]

LimitedStore_Close(s) ==
  IF s.s = "nil" THEN s
  ELSE IF s.s = "primary"
    THEN [s EXCEPT !.primary = Store_Close(s.primary), !.s = "nil"]
    ELSE [s EXCEPT !.secondary = Store_Close(s.secondary), !.s = "nil"]

\* dynamic dispatch of Store.Close
Store_Close(s) ==
  CASE s.kind = "mem" -> StoreMemory_Close(s)
    [] s.kind = "file" -> StoreFile_Close(s)
    [] s.kind = "limited" -> LimitedStore_Close(s)
    [] OTHER -> s

\* The error Close returns on the store s; closeOk: the operating system
\* closes and removes the temp file without error
RECURSIVE Store_CloseErr(_, _)
Store_CloseErr(s, closeOk) ==
  CASE s.kind = "file" -> IF s.has /\ ~closeOk THEN "close error" ELSE Nil
    [] s.kind = "limited" ->
         IF s.s = "nil" THEN Nil
         ELSE Store_CloseErr(IF s.s = "primary" THEN s.primary ELSE s.secondary, closeOk)
    [] OTHER -> Nil

\* StoreMemory.Size and StoreFile.Size
StoreMemory_Size(s) == IF ~s.has THEN 0 ELSE Len(s.data)
StoreFile_Size(s) == s.size

\* Result of Store.ReadFrom: the store afterwards, n, the error and the
\* number of bytes taken from the source. path: for a LimitedStore, the
\* stores its active reference s.s was set to during the call, in order.
RF(s, n, err, used) ==
  [store |-> s, n |-> n, err |-> err, used |-> used, path |-> <<>>]

\* bytes.Buffer.ReadFrom and io.Copy: everything up to the end of the stream
CopyErr(r) == IF r.err THEN "read error" ELSE Nil

\* Mutant of StoreMemory_ReadFrom: the new bytes follow the previous ones.
StoreMemory_ReadFrom_Append(s, r) ==
  RF([s EXCEPT !.has = TRUE, !.data = s.data \o r.data],
     Len(r.data), CopyErr(r), Len(r.data))

StoreMemory_ReadFrom(s, r) ==
  RF([s EXCEPT !.has = TRUE, !.data = r.data], Len(r.data), CopyErr(r), Len(r.data))

\* Mutant of StoreFile_ReadFrom: the temp file of the previous fill is left
\* in place.
StoreFile_ReadFrom_Leak(s, r, tmpOk) ==
  IF ~tmpOk THEN RF([s EXCEPT !.has = FALSE, !.data = <<>>, !.size = 0], 0, "tempfile error", 0)
  ELSE RF([s EXCEPT !.has = TRUE, !.data = r.data, !.size = Len(r.data),
                    !.files = @ + 1],
          Len(r.data), CopyErr(r), Len(r.data))

\* tmpOk: ioutil.TempFile succeeds
StoreFile_ReadFrom(s, r, tmpOk) ==
  LET c == IF s.has THEN StoreFile_Close(s) ELSE s
  IN IF ~tmpOk THEN RF(c, 0, "tempfile error", 0)
     ELSE RF([c EXCEPT !.has = TRUE, !.data = r.data, !.size = Len(r.data),
                       !.files = @ + 1],
             Len(r.data), CopyErr(r), Len(r.data))

\* Mutant of LimitReader: the reader stops one byte before the limit.
LimitReader_Short(r, limit) ==
  Stream(Take(r.data, Max(limit - 1, 0)), r.err /\ Len(r.data) < limit - 1)

\* io.LimitReader(r, limit)
LimitReader(r, limit) ==
  Stream(Take(r.data, Max(limit, 0)), r.err /\ Len(r.data) < limit)

\* Mutant of Replay: only the unread remainder of r.
Replay_Remainder(primary, n, r, used) == Stream(Drop(r.data, used), r.err)

\* io.MultiReader(io.NewSectionReader(primary, 0, n), r), r already read up
\* to `used` bytes
Replay(primary, n, r, used) ==
  Stream(Store_ReadAt(primary, n, 0).bytes \o Drop(r.data, used), r.err)

\* Mutant of WithinLimit: the limit always counts as reached.
WithinLimit_Never(n, limit) == FALSE

\* n < s.limit (line 178): the primary took the whole source
WithinLimit(n, limit) == n < limit

\* Mutant of ActiveSteps: after the migration the primary is made active
\* again.
ActiveSteps_Back(migrates) ==
  IF migrates THEN <<"primary", "secondary", "primary">> ELSE <<"primary">>

\* The assignments to s.s in LimitedStore.ReadFrom, in order: s.primary
\* (line 173) and, when the data is moved, s.secondary (line 190)
ActiveSteps(migrates) ==
  IF migrates THEN <<"primary", "secondary">> ELSE <<"primary">>

RECURSIVE Store_ReadFrom(_, _, _)
LimitedStore_ReadFrom(s, r, tmpOk) ==
  LET s0 == IF s.s = "nil" THEN s ELSE LimitedStore_Close(s)
      p == Store_ReadFrom(s0.primary, LimitReader(r, s.limit), tmpOk)
      stay == ActiveSteps(FALSE)
      move == ActiveSteps(TRUE)
      s1 == [s0 EXCEPT !.s = stay[Len(stay)], !.primary = p.store]
  IN IF WithinLimit(p.n, s.limit)
       THEN [RF(s1, p.n, p.err, p.used) EXCEPT !.path = stay]
     ELSE IF s0.secondary = NoStore
       THEN [RF(s1, p.n, "ErrStoreLimit", p.used) EXCEPT !.path = stay]
     ELSE LET q == Store_ReadFrom(s0.secondary, Replay(p.store, p.n, r, p.used), tmpOk)
          IN [RF([s1 EXCEPT !.secondary = q.store,
                            !.primary = Store_Close(p.store),
                            !.s = move[Len(move)]],
                 q.n, q.err, Len(r.data))
              EXCEPT !.path = move]

\* dynamic dispatch of Store.ReadFrom; a call on a nil Store panics
Store_ReadFrom(s, r, tmpOk) ==
  CASE s.kind = "mem" -> StoreMemory_ReadFrom(s, r)
    [] s.kind = "file" -> StoreFile_ReadFrom(s, r, tmpOk)
    [] s.kind = "limited" -> LimitedStore_ReadFrom(s, r, tmpOk)
    [] OTHER -> RF(s, 0, "panic", 0)

\* ----------------------------------------------------------- HTTP messages
\* http.Response as the reader sees it.  status = 0 stands for client.Do
\* returning an error.  A header that is absent reads as the empty string.
\* body are the bytes resp.Body yields; bodyErr says that it then fails with
\* a read error instead of ending.
Response(status, cr, cl, lm, etag, ct, body, bodyErr) ==
  [status |-> status, contentRange |-> cr, contentLength |-> cl,
   lastModified |-> lm, etag |-> etag, contentType |-> ct,
   body |-> body, bodyErr |-> bodyErr]

StatusOK == 200
StatusPartialContent == 206

\* struct meta and its zero value
Meta(size, lm, etag, ct) ==
  [size |-> size, lastModified |-> lm, etag |-> etag, contentType |-> ct]
ZeroMeta == Meta(0, "", <<>>, "")

\* getMeta: panics == TRUE when contentrange.Parse panics
getMetaPanics(resp) ==
  /\ resp.status = StatusPartialContent
  /\ resp.contentRange # <<>>
  /\ Parse(resp.contentRange).err = "panic"

getMeta(resp) ==
  Meta(CASE resp.status = StatusOK -> resp.contentLength
         [] resp.status = StatusPartialContent ->
              IF resp.contentRange # <<>> THEN Parse(resp.contentRange).length ELSE 0
         [] OTHER -> 0,
       resp.lastModified, resp.etag, resp.contentType)

\* Mutant of validate: the ETag is not compared.
validate_NoETag(meta, resp) ==
  LET m == getMeta(resp)
  IN IF meta.size # m.size \/ meta.lastModified # m.lastModified
       THEN "ErrValidationFailed"
       ELSE Nil

\* Mutant of validate: entity tags match only as strong validators
\* (equal, non-empty, starting with a double quote).
validate_Strong(meta, resp) ==
  LET m == getMeta(resp)
  IN IF meta.size # m.size \/ meta.lastModified # m.lastModified
          \/ ~(meta.etag = m.etag /\ meta.etag # <<>> /\ meta.etag[1] = "\"")
       THEN "ErrValidationFailed"
       ELSE Nil

\* HTTPReaderAt.validate: the error it returns
validate(meta, resp) ==
  LET m == getMeta(resp)
  IN IF meta.size # m.size \/ meta.lastModified # m.lastModified \/ meta.etag # m.etag
       THEN "ErrValidationFailed"
       ELSE Nil

\* Mutant of MethodRejected: the method is not checked.
MethodRejected_Unchecked(req) == FALSE

\* req.Method != "GET" in New
MethodRejected(req) == req.method # "GET"

\* An http.Header is a map, which Go passes by reference: id tells which map
\* a Header field refers to ("proto": the map of the caller's prototype
\* request; "own": a map made by the call that holds it), kv is its content.
Header(id, kv) == [id |-> id, kv |-> kv]

\* Mutant of cloneHeader: the map itself is returned, not a copy.
cloneHeader_Alias(h) == h

\* cloneHeader: a new map with a copy of every value slice
cloneHeader(h) == Header("own", [k \in DOMAIN h.kv |-> h.kv[k]])

\* Mutant of copyReq: the struct is copied, the Header map is not cloned.
copyReq_Shallow(req) == [method |-> req.method, header |-> req.header]

\* HTTPReaderAt.copyReq: a copy of the prototype with a Header of its own
copyReq(req) == [method |-> req.method, header |-> cloneHeader(req.header)]

\* http.Header.Set(k, v) on the map h refers to
HeaderSet(h, k, v) ==
  Header(h.id, [x \in (DOMAIN h.kv) \cup {k} |-> IF x = k THEN v ELSE h.kv[x]])

\* The prototype request after a call stored the map h: it has changed if
\* h is the prototype's own map.
Stored(req, h) == IF h.id = req.header.id THEN [req EXCEPT !.header = h] ELSE req

\* fmt.Sprintf("bytes=%d-%d", reqFirst, reqLast)
RangeHeader(first, last) ==
  <<"b", "y", "t", "e", "s", "=">> \o FmtD(first) \o <<"-">> \o FmtD(last)

\* Mutant of ShouldClamp: the requested range is never clamped.
ShouldClamp_Never(meta, initialize, reqLast) == FALSE

ShouldClamp(meta, initialize, reqLast) ==
  ~initialize /\ meta.size # -1 /\ reqLast > Wrap(meta.size - 1)

\* The part of readAt before client.Do (lines 101-121): either the call
\* returns at once (done) or a request goes out.
\*   plen: len(p) of the caller; the request's p is p[:plen']
\*   proto: the caller's prototype request as the call leaves it
Prepare(ra, req, plen, off, initialize) ==
  LET reqFirst == off
      reqLast0 == Wrap(Wrap(off + plen) - 1)
      clamp == ShouldClamp(ra.meta, initialize, reqLast0)
      reqLast == IF clamp THEN Wrap(ra.meta.size - 1) ELSE reqLast0
      out == copyReq(req)
      h == HeaderSet(out.header, "Range", RangeHeader(reqFirst, reqLast))
  IN IF plen = 0 THEN [done |-> TRUE, n |-> 0, err |-> Nil, proto |-> req]
     ELSE IF clamp /\ reqLast < reqFirst
       THEN [done |-> TRUE, n |-> 0, err |-> "EOF", proto |-> req]
     ELSE [done |-> FALSE,
           reqFirst |-> reqFirst, reqLast |-> reqLast,
           returnErr |-> IF clamp THEN "EOF" ELSE Nil,
           plen |-> IF clamp THEN Wrap(Wrap(reqLast - reqFirst) + 1) ELSE plen,
           req |-> [out EXCEPT !.header = h],
           proto |-> Stored(req, h)]

\* io.ReadFull(resp.Body, p): n bytes land in p
ReadFull(resp, plen) ==
  LET n == Min(Len(resp.body), plen)
  IN RA(n, Take(resp.body, plen),
        IF n = plen THEN Nil
        ELSE IF resp.bodyErr THEN "read error"
        ELSE IF n = 0 THEN "EOF" ELSE "ErrUnexpectedEOF")

\* Result of readAt: the reader's fields and the store afterwards, the
\* returned n and err, the bytes written to the front of the caller's p, and
\* the error of the Store fill ("none" when the Store was not filled), and
\* ops, the methods of the Store the call invoked, in order (set by readAtOK).
OutF(ra, bs, n, err, written, fill) ==
  [ra |-> ra, bs |-> bs, n |-> n, err |-> err, written |-> written, fill |-> fill,
   ops |-> <<>>]
\* Mutant of Out: a call that returns an error forgets the Metadata.
Out_Sticky(ra, bs, n, err, written) ==
  OutF(IF err \notin {Nil, "EOF", "panic"} THEN [ra EXCEPT !.meta = ZeroMeta] ELSE ra,
       bs, n, err, written, "none")

Out(ra, bs, n, err, written) == OutF(ra, bs, n, err, written, "none")

\* Mutant of StoreMissing: the nil check of the Store is left out.
StoreMissing_Unchecked(bs) == FALSE

\* ra.bs == nil (line 143)
StoreMissing(bs) == bs = NoStore

\* Mutant of FallbackSize: the size is always the Store's byte count.
FallbackSize_Counted(resp, size, n) == n

\* ra.meta.size after the Store was filled (lines 159-161): the byte count
\* of the fill when the response had no Content-Length
FallbackSize(resp, size, n) == IF resp.contentLength = -1 THEN n ELSE size

\* Mutant of readAtOK: a status 200 is handled alike on every call, also
\* after the probe.
readAtOK_Refill(ra, bs, q, off, initialize, resp, tmpOk) ==
  IF StoreMissing(bs) THEN Out(ra, bs, 0, "ErrNoRange", <<>>)
  ELSE LET fill == Store_ReadFrom(bs, Stream(resp.body, resp.bodyErr), tmpOk)
           ra1 == [ra EXCEPT !.usebs = TRUE,
                             !.meta.size = FallbackSize(resp, @, fill.n)]
           rd == Store_ReadAt(fill.store, q.plen, off)
       IN IF fill.err # Nil
            THEN [OutF(ra1, fill.store, fill.n, fill.err, <<>>, fill.err)
                    EXCEPT !.ops = <<"ReadFrom">>]
            ELSE [OutF(ra1, fill.store, rd.n, rd.err, rd.bytes, Nil)
                    EXCEPT !.ops = <<"ReadFrom", "ReadAt">>]

\* The status-200 branch of readAt (lines 142-167)
readAtOK(ra, bs, q, off, initialize, resp, tmpOk) ==
  IF StoreMissing(bs) THEN Out(ra, bs, 0, "ErrNoRange", <<>>)
  ELSE IF ~initialize THEN Out(ra, bs, 0, "server suddenly stopped supporting range requests", <<>>)
  ELSE LET fill == Store_ReadFrom(bs, Stream(resp.body, resp.bodyErr), tmpOk)
           ra1 == [ra EXCEPT !.usebs = TRUE,
                             !.meta.size = FallbackSize(resp, @, fill.n)]
           rd == Store_ReadAt(fill.store, q.plen, off)
       IN IF fill.err # Nil
            THEN [OutF(ra1, fill.store, fill.n, fill.err, <<>>, fill.err)
                    EXCEPT !.ops = <<"ReadFrom">>]
            ELSE [OutF(ra1, fill.store, rd.n, rd.err, rd.bytes, Nil)
                    EXCEPT !.ops = <<"ReadFrom", "ReadAt">>]

\* Mutant of RangeMismatch: only the start of the range is checked.
RangeMismatch_StartOnly(first, last, reqFirst, reqLast) == first # reqFirst

\* The range check of a 206 response (line 177)
RangeMismatch(first, last, reqFirst, reqLast) == first # reqFirst \/ last > reqLast

\* Mutant of LengthMismatch: the length is taken as last-first.
LengthMismatch_OffByOne(resp, first, last) == resp.contentLength # Wrap(last - first)

\* The Content-Length check of a 206 response (line 182)
LengthMismatch(resp, first, last) == resp.contentLength # Wrap(Wrap(last - first) + 1)

\* The status-206 branch of readAt (lines 169-201)
readAtPartial(ra, bs, q, resp) ==
  LET cr == Parse(resp.contentRange)
      rd == ReadFull(resp, q.plen)
  IN IF resp.contentRange = <<>>
       THEN Out(ra, bs, 0, "no content-range header in partial response", <<>>)
     ELSE IF cr.err # Nil THEN Out(ra, bs, 0, cr.err, <<>>)
     ELSE IF RangeMismatch(cr.first, cr.last, q.reqFirst, q.reqLast)
       THEN Out(ra, bs, 0, "received different range than requested", <<>>)
     ELSE IF LengthMismatch(resp, cr.first, cr.last)
       THEN Out(ra, bs, 0, "content-length mismatch in http response", <<>>)
     ELSE IF rd.err # Nil
       THEN Out(ra, bs, 0, IF rd.err = "ErrUnexpectedEOF" THEN "EOF" ELSE rd.err, rd.bytes)
     ELSE Out(ra, bs, rd.n, q.returnErr, rd.bytes)

\* Mutant of SetsMeta: every call stores the Metadata of its response.
SetsMeta_Always(initialize) == TRUE

\* if initialize (line 133): the call stores the Metadata instead of
\* validating against it
SetsMeta(initialize) == initialize

\* The part of readAt after client.Do returned resp (lines 123-201).
\* err = "panic" is a run-time panic of the call.
Respond(ra, bs, q, off, initialize, resp, tmpOk) ==
  IF resp.status = 0 THEN Out(ra, bs, 0, "http request: transport error", <<>>)
  ELSE IF resp.status # StatusOK /\ resp.status # StatusPartialContent
    THEN Out(ra, bs, 0, "http request error: status", <<>>)
  ELSE IF getMetaPanics(resp) THEN Out(ra, bs, 0, "panic", <<>>)
  ELSE LET ra1 == IF SetsMeta(initialize) THEN [ra EXCEPT !.meta = getMeta(resp)] ELSE ra
           verr == IF SetsMeta(initialize) THEN Nil ELSE validate(ra.meta, resp)
       IN IF verr # Nil THEN Out(ra, bs, 0, verr, <<>>)
          ELSE IF resp.status = StatusOK
            THEN readAtOK(ra1, bs, q, off, initialize, resp, tmpOk)
            ELSE readAtPartial(ra1, bs, q, resp)

\* ------------------------------------------------------ the remote server
\* Content of the remote resource: byte i (from 0) of an endless pattern,
\* of which the resource is the first DataLen bytes.
Byte(i) == (i % 3) + 1
Window(first, n) == [j \in 1..n |-> Byte(first + j - 1)]
Data == Window(0, DataLen)

ETagStrong == <<"\"", "a", "\"">>
ETagWeak == <<"W", "/", "\"", "a", "\"">>
\* Last-Modified, ETag and Content-Type of the resource when New probes it
ProbeHeaders == { <<"Mon", e, "zip">> : e \in {ETagStrong, ETagWeak, <<>>} }
\* ... and of a later response, when the resource may have changed
HeaderChoices ==
  { <<"Mon", ETagStrong, "zip">>, <<"Tue", ETagStrong, "zip">>,
    <<"Mon", <<>>, "zip">>, <<"Mon", ETagWeak, "zip">>,
    <<"Mon", ETagStrong, "txt">> }

\* "bytes <first>-<last>/<total>" as a server formats it; total -1 is "*"
ContentRange(first, last, total) ==
  Str_bytes \o <<" ">> \o FmtD(first) \o <<"-">> \o FmtD(last) \o <<"/">>
    \o (IF total = -1 THEN Str_star ELSE FmtD(total))

InInt(x) == MinInt <= x /\ x <= MaxInt

\* Total lengths a Content-Range states when New probes the resource, and in
\* a later response, when the resource may have changed; -1 is "*"
ProbeTotals == {DataLen, -1}
TotalChoices == {DataLen, -1, DataLen + 1}

\* Content-Range values a server may answer the request q with: the window
\* asked for, a shorter one, a longer one, one that starts elsewhere, an
\* inverted one, other totals, and values outside the grammar
ContentRanges(q, totals) ==
  { ContentRange(w[1], w[2], DataLen) :
      w \in { v \in { <<q.reqFirst, q.reqLast>>, <<q.reqFirst, q.reqLast - 1>>,
                      <<q.reqFirst, q.reqLast + 1>>, <<q.reqFirst + 1, q.reqLast>>,
                      <<q.reqFirst, q.reqFirst - 2>> } :
                InInt(v[1]) /\ InInt(v[2]) } }
  \cup { ContentRange(q.reqFirst, q.reqLast, t) : t \in totals }
  \cup { ContentRange(q.reqFirst, q.reqFirst - 2, t) :
           t \in {u \in totals : q.reqFirst >= 2} }
  \cup { <<>>, <<"/">>,
         Str_bytes \o <<" ", "*", "/">> \o FmtD(DataLen),
         Str_bytes \o <<" ", "0", "/">> \o FmtD(DataLen),
         Str_bytes \o <<" ", "0", "-", "x", "/", "1">> }

\* (body, bodyErr) of a 206 response to a request for n bytes from first
Bodies(first, n) ==
  { <<Window(first, n), FALSE>>, <<Window(first, n - 1), FALSE>>,
    <<Window(first, n - 1), TRUE>> }

NoResponse == Response(-1, <<>>, 0, "", <<>>, "", <<>>, FALSE)

\* Mutant of Retries: a call that failed sends its request once more.
Retries_OnError(o) == o.err # Nil

\* Whether readAt, having come to the result o, sends its request again:
\* client.Do is called once (line 123), outside any loop, and every error
\* is returned where it is met
Retries(o) == FALSE

\* The responses to a further request of the call that came to o1: none
\* when no further request is sent
Again(o1, resps) == IF Retries(o1) THEN resps ELSE {NoResponse}

\* readAt from client.Do on (lines 123-201): o1 is the result after the
\* response to the first request, again the response to a further one.
\* reqs counts the requests passed to client.Do.
Exchange(o1, q, off, initialize, again, tmpOk) ==
  IF Retries(o1)
    THEN [r \in {"reqs"} |-> 2] @@ Respond(o1.ra, o1.bs, q, off, initialize, again, tmpOk)
    ELSE [r \in {"reqs"} |-> 1] @@ o1

ErrResponse == Response(0, <<>>, 0, "", <<>>, "", <<>>, FALSE)
StatusResponse(st) == Response(st, <<>>, 0, "", <<>>, "", <<>>, FALSE)

OKResponses(hs) ==
  { Response(StatusOK, <<>>, cl, h[1], h[2], h[3], Window(0, k), be) :
      k \in 0..DataLen, cl \in {-1} \cup (0..DataLen), be \in BOOLEAN, h \in hs }

PartialResponses(q, hs, totals) ==
  { Response(StatusPartialContent, cr, cl, h[1], h[2], h[3], b[1], b[2]) :
      cr \in ContentRanges(q, totals),
      cl \in {-1, q.plen - 1, q.plen, q.plen + 1},
      h \in hs,
      b \in Bodies(q.reqFirst, q.plen) }

\* What client.Do may return for the request q, with headers among hs
Responses(q, hs, totals) ==
  {ErrResponse, StatusResponse(404), StatusResponse(416)}
    \cup OKResponses(hs) \cup PartialResponses(q, hs, totals)

\* ------------------------------------------------------------- the caller
Offsets == {-1} \cup (0..MaxOff) \cup {MaxInt}
Lengths == 0..MaxLen

\* Size limits of the LimitedStores the caller builds (NewDefaultStore has
\* 1 MB and 1 GB).
MemLimit == 2
FileLimit == 3

NewDefaultStore ==
  NewLimitedStore(NewStoreMemory, MemLimit,
                  NewLimitedStore(NewStoreFile, FileLimit, NoStore))

\* The bs argument of New
StoreChoices ==
  { NoStore, NewDefaultStore }

RECURSIVE UsesFile(_)
UsesFile(s) ==
  CASE s.kind = "file" -> TRUE
    [] s.kind = "limited" -> UsesFile(s.primary) \/ UsesFile(s.secondary)
    [] OTHER -> FALSE

\* --------------------------------------------------------------- state
VARIABLES
  req,     \* the prototype request the caller passes to New
  bs,      \* the Store the caller passes to New (NoStore: nil)
  ra,      \* the HTTPReaderAt: meta and usebs
  phase,   \* "start": before New; "ready": New returned a reader;
           \* "failed": New returned nil and an error; "panicked"
  ret,     \* the call that has just returned, with its request and response
  probe,   \* the response to the probe request of New
  erred,   \* a ReadAt of the reader has returned an error to its caller
  calls,   \* the ReadAt calls that goroutines run concurrently, by caller
  str,     \* the argument of a call of contentrange.Parse on its own
  parsed,  \* ... and what the call returned
  st,      \* a Store used on its own, without a reader
  sret,    \* the call on st that has just returned
  lastFill \* the most recent ReadFrom on st: its source and its result

readerVars == <<req, bs, ra, phase, ret, probe, erred, calls>>
parseVars == <<str, parsed>>
storeVars == <<st, sret, lastFill>>
vars == <<readerVars, parseVars, storeVars>>

\* contentrange.Parse has not been called
NoParse == [called |-> FALSE]
\* No call on st has returned; st has not been filled
NoSRet == [op |-> "none"]
NoFill == [filled |-> FALSE]
\* Nothing is going on outside the reader
ParseIdle == str = <<>> /\ parsed = NoParse
StoreIdle == st = NoStore /\ sret = NoSRet /\ lastFill = NoFill

\* Number of goroutines that call ReadAt concurrently
NCallers == 2
Callers == 1..NCallers
\* A goroutine that is not in a call
Idle == [pc |-> "idle"]

\* A returned call: op, its arguments, the reader New returned ("ra" or Nil),
\* n, err, the bytes written into p, whether a request was sent and its
\* Range header, the request, the response (to the first request), the error
\* of the Store fill ("none" when the call did not fill the Store), and the
\* number of requests the call passed to client.Do. ops are the methods of
\* the Store the call invoked, in order (set by the actions).
RetF(op, plen, off, reader, n, err, written, sent, wire, q, resp, fill) ==
  [op |-> op, plen |-> plen, off |-> off, reader |-> reader, n |-> n, err |-> err,
   written |-> written, sent |-> sent, wire |-> wire, q |-> q, resp |-> resp,
   fill |-> fill, reqs |-> IF sent THEN 1 ELSE 0, ops |-> <<>>]
Ret(op, plen, off, reader, n, err, written, sent, wire, q, resp) ==
  RetF(op, plen, off, reader, n, err, written, sent, wire, q, resp, "none")
NoQ == [done |-> TRUE, n |-> 0, err |-> Nil]
\* What a returned call keeps of the result q of Prepare
Kept(q) == [x \in (DOMAIN q) \ {"proto"} |-> q[x]]
NoRet == Ret("none", 0, 0, Nil, 0, Nil, <<>>, FALSE, <<>>, NoQ, NoResponse)

\* The Header of the prototype request the caller built
ProtoHeader == Header("proto", [Accept |-> <<"*">>])

Init ==
  /\ req \in { [method |-> m, header |-> ProtoHeader] : m \in {"GET", "POST"} }
  /\ bs \in StoreChoices
  /\ ra = [meta |-> ZeroMeta, usebs |-> FALSE]
  /\ phase = "start"
  /\ ret = NoRet
  /\ probe = NoResponse
  /\ erred = FALSE
  /\ calls = [c \in Callers |-> Idle]
  /\ ParseIdle
  /\ StoreIdle

\* New(client, req, bs), with the probe readAt(make([]byte, 1), 0, true)
New ==
  /\ phase = "start"
  /\ IF MethodRejected(req)
       THEN /\ ret' = Ret("New", 1, 0, Nil, 0, "invalid HTTP method", <<>>, FALSE, <<>>,
                          NoQ, NoResponse)
            /\ phase' = "failed"
            /\ UNCHANGED <<req, bs, ra, probe>>
       ELSE LET q == Prepare(ra, req, 1, 0, TRUE)
            IN \E resp \in Responses(q, ProbeHeaders, ProbeTotals),
                  tmpOk \in IF UsesFile(bs) THEN BOOLEAN ELSE {TRUE} :
                 \E o \in {Respond(ra, bs, q, 0, TRUE, resp, tmpOk)} :
                    /\ ret' = [RetF("New", 1, 0, IF o.err = Nil THEN "ra" ELSE Nil,
                                    o.n, o.err, o.written, TRUE,
                                    q.req.header.kv["Range"], Kept(q), resp, o.fill)
                                 EXCEPT !.ops = o.ops]
                    /\ phase' = IF o.err = "panic" THEN "panicked"
                                ELSE IF o.err = Nil THEN "ready" ELSE "failed"
                    /\ ra' = o.ra
                    /\ bs' = o.bs
                    /\ probe' = resp
                    /\ req' = q.proto
  /\ UNCHANGED <<erred, calls, parseVars, storeVars>>

\* The returned call r sent its request and came back with an error of the
\* exchange: a transport error, a bad status, a validation failure or a
\* protocol error (lines 124-184)
Failed(r) == r.sent /\ r.err \notin {Nil, "EOF", "panic"}

\* Mutant of Delegates: every call is served from the Store.
Delegates_Always(r) == TRUE

\* ra.usebs (line 97): the call is handed to the Store's ReadAt
Delegates(r) == r.usebs

\* ra.ReadAt(p, off) with len(p) = plen: readAt(p, off, false)
ReadAt(plen, off) ==
  /\ phase = "ready"
  /\ ret = NoRet
  /\ IF Delegates(ra)
       THEN LET rd == Store_ReadAt(bs, plen, off)
            IN /\ ret' = [Ret("ReadAt", plen, off, Nil, rd.n, rd.err, rd.bytes, FALSE, <<>>,
                              NoQ, NoResponse)
                           EXCEPT !.ops = <<"ReadAt">>]
               /\ UNCHANGED <<req, bs, ra, phase>>
       ELSE LET q == Prepare(ra, req, plen, off, FALSE)
            IN IF q.done
                 THEN /\ ret' = Ret("ReadAt", plen, off, Nil, q.n, q.err, <<>>, FALSE, <<>>,
                                    Kept(q), NoResponse)
                      /\ req' = q.proto
                      /\ UNCHANGED <<bs, ra, phase>>
                 ELSE \E resp \in Responses(q, HeaderChoices, TotalChoices) :
                        \E o1 \in {Respond(ra, bs, q, off, FALSE, resp, TRUE)} :
                        \E again \in Again(o1, Responses(q, HeaderChoices, TotalChoices)) :
                        \E o \in {Exchange(o1, q, off, FALSE, again, TRUE)} :
                           /\ ret' = [Ret("ReadAt", plen, off, Nil, o.n, o.err, o.written,
                                          TRUE, q.req.header.kv["Range"], Kept(q), resp)
                                        EXCEPT !.reqs = o.reqs, !.ops = o.ops]
                           /\ phase' = IF o.err = "panic" THEN "panicked" ELSE phase
                           /\ ra' = o.ra
                           /\ bs' = o.bs
                           /\ req' = q.proto
  /\ erred' = (erred \/ Failed(ret'))
  /\ UNCHANGED <<probe, calls, parseVars, storeVars>>

\* The caller takes the result of the call and goes on.
Continue ==
  /\ phase = "ready"
  /\ ret # NoRet
  /\ ret' = NoRet
  /\ UNCHANGED <<req, bs, ra, phase, probe, erred, calls, parseVars, storeVars>>

\* The caller closes the Store it passed to New: bs.Close()
CloseStore ==
  /\ bs # NoStore
  /\ phase = "failed" \/ (phase = "ready" /\ ret = NoRet)
  /\ bs' = Store_Close(bs)
  /\ bs' # bs
  /\ UNCHANGED <<req, ra, phase, ret, probe, erred, calls, parseVars, storeVars>>

Next ==
  \/ New
  \/ \E plen \in Lengths, off \in Offsets : ReadAt(plen, off)
  \/ Continue
  \/ CloseStore

Spec == Init /\ [][Next]_vars

\* ------------------------------------------- concurrent ReadAt calls
\* The content of the map a Header field refers to, as a reader of the field
\* finds it.
Deref(h) == IF h.id = req.header.id THEN req.header.kv ELSE h.kv

\* Position of the first "-" of w from index i on (0: none)
RECURSIVE DashFrom(_, _)
DashFrom(w, i) ==
  IF i > Len(w) THEN 0 ELSE IF w[i] = "-" THEN i ELSE DashFrom(w, i + 1)

\* The server reads "bytes=<first>-<last>" of a Range header.
ParseRange(wire) ==
  LET spec == Drop(wire, 6)
      d == DashFrom(spec, 2)
      first == ParseInt(SubSeq(spec, 1, d - 1))
      last == ParseInt(SubSeq(spec, d + 1, Len(spec)))
  IN IF Len(wire) < 6 \/ Take(wire, 6) # <<"b", "y", "t", "e", "s", "=">> \/ d = 0
          \/ first.err # Nil \/ last.err # Nil
       THEN [ok |-> FALSE, first |-> 0, last |-> 0]
       ELSE [ok |-> TRUE, first |-> first.val, last |-> last.val]

\* A server that serves the unchanged resource Data: the probe p shows
\* whether it honors Range, the headers it sends and the total it states.
\* Without range support it sends the whole body with status 200; a range
\* it cannot satisfy gets 416; any other gets the part of it inside Data.
Serve(p, wire) ==
  LET r == ParseRange(wire)
      last == Min(r.last, DataLen - 1)
      n == last - r.first + 1
  IN IF p.status = StatusOK THEN p
     ELSE IF ~r.ok \/ r.first < 0 \/ r.first > r.last \/ r.first >= DataLen
       THEN StatusResponse(416)
     ELSE Response(StatusPartialContent,
                   ContentRange(r.first, last, Parse(p.contentRange).length),
                   n, p.lastModified, p.etag, p.contentType,
                   Window(r.first, n), FALSE)

\* Answers of such a server to the probe of New
Probes ==
  { Response(StatusPartialContent, ContentRange(0, 0, t), 1, "Mon", ETagStrong, "zip",
             Window(0, 1), FALSE) : t \in ProbeTotals }
  \cup { Response(StatusOK, <<>>, cl, "Mon", ETagStrong, "zip", Data, FALSE) :
           cl \in {DataLen, -1} }

\* The state in which New(client, req, bs) has returned a reader
InitPar ==
  \E proto \in { [method |-> "GET", header |-> ProtoHeader] },
     store \in StoreChoices, resp \in Probes :
    \E q \in {Prepare([meta |-> ZeroMeta, usebs |-> FALSE], proto, 1, 0, TRUE)} :
      \E o \in {Respond([meta |-> ZeroMeta, usebs |-> FALSE], store, q, 0, TRUE, resp, TRUE)} :
        /\ o.err = Nil
        /\ req = q.proto
        /\ bs = o.bs
        /\ ra = o.ra
        /\ phase = "ready"
        /\ ret = NoRet
        /\ probe = resp
        /\ erred = FALSE
        /\ calls = [c \in Callers |-> Idle]
        /\ ParseIdle
        /\ StoreIdle

\* A call that has returned
Done(plen, off, n, err, written, sent, wire) ==
  [pc |-> "done", plen |-> plen, off |-> off, n |-> n, err |-> err,
   written |-> written, sent |-> sent, wire |-> wire]

\* Goroutine c calls ra.ReadAt(p, off), len(p) = plen, and runs readAt up to
\* client.Do (lines 97-121): the call returns from the Store or at once, or
\* it has made its request and set Range on it.
Begin(c, plen, off) ==
  /\ phase = "ready"
  /\ calls[c].pc \in {"idle", "done"}
  /\ IF Delegates(ra)
       THEN LET rd == Store_ReadAt(bs, plen, off)
            IN /\ calls' = [calls EXCEPT ![c] =
                              Done(plen, off, rd.n, rd.err, rd.bytes, FALSE, <<>>)]
               /\ UNCHANGED req
       ELSE \E q \in {Prepare(ra, req, plen, off, FALSE)} :
              /\ req' = q.proto
              /\ calls' = [calls EXCEPT ![c] =
                   IF q.done THEN Done(plen, off, q.n, q.err, <<>>, FALSE, <<>>)
                   ELSE [pc |-> "ranged", plen |-> plen, off |-> off,
                         q |-> Kept(q)]]
  /\ UNCHANGED <<bs, ra, phase, ret, probe, erred, parseVars, storeVars>>

\* Goroutine c sends its request, with the headers its Header field refers
\* to at that moment, and runs readAt to its end (lines 123-201).
Do(c) ==
  /\ calls[c].pc = "ranged"
  /\ LET call == calls[c]
         wire == Deref(call.q.req.header)["Range"]
     IN \E o \in {Respond(ra, bs, call.q, call.off, FALSE, Serve(probe, wire), TRUE)} :
          /\ calls' = [calls EXCEPT ![c] =
                         Done(call.plen, call.off, o.n, o.err, o.written, TRUE, wire)]
          /\ ra' = o.ra
          /\ bs' = o.bs
  /\ UNCHANGED <<req, phase, ret, probe, erred, parseVars, storeVars>>

NextPar ==
  \/ \E c \in Callers, plen \in Lengths, off \in 0..MaxOff : Begin(c, plen, off)
  \/ \E c \in Callers : Do(c)

SpecPar == InitPar /\ [][NextPar]_vars

\* ------------------------------------------- contentrange.Parse on its own
\* Largest of the numbers F, L, N of the inputs "bytes F-L/N"
MaxNum == 10
Nums == 0..MaxNum
Triples == Nums \X Nums \X (Nums \cup {-1})

\* "bytes */<total>"
WildcardRange(total) == Str_bytes \o <<" ", "*", "/">> \o FmtD(total)

\* The inputs of the grammar, by the numbers they state (-1: "*")
Full == [t \in Triples |-> ContentRange(t[1], t[2], t[3])]
Wildcard == [n \in Nums |-> WildcardRange(n)]

\* Inputs outside the grammar: other units, three tokens without "*", other
\* token counts (none at all included), numbers that are no numbers or do
\* not fit an int64
Str_banana == <<"b", "a", "n", "a", "n", "a">>
Ungrammatical ==
  { Str_banana \o <<" ", "2", "-", "1", "/", "6">>,
    Str_banana \o <<" ", "*", "/", "6">>,
    Str_banana,
    Str_bytes \o <<" ", "0", "/", "6">>,
    Str_bytes \o <<" ", "0", "-", "6">>,
    Str_bytes \o <<" ", "x", "/", "6">>,
    Str_bytes,
    Str_bytes \o <<" ", "0">>,
    Str_bytes \o <<" ", "*">>,
    Str_bytes \o <<" ", "0", "-", "1", "/", "2", "/", "3">>,
    Str_bytes \o <<" ", "0", "-", "1", "-", "2", "/", "3", " ", "4">>,
    <<>>, <<" ">>, <<"-">>, <<"/">>, <<" ", "-", "/", "\t">>,
    Str_bytes \o <<" ", "x", "-", "1", "/", "2">>,
    Str_bytes \o <<" ", "0", "-", "x", "/", "2">>,
    Str_bytes \o <<" ", "0", "-", "1", "/", "x">>,
    Str_bytes \o <<" ", "*", "/", "x">>,
    ContentRange(MaxInt + 1, 0, 1),
    ContentRange(0, MaxInt + 1, -1),
    ContentRange(0, 1, MaxInt + 1),
    WildcardRange(MaxInt + 1) }

\* The arguments Parse is called with: the inputs above, a largest number,
\* and an input of the grammar after a leading space
ParseInputs ==
  { Full[t] : t \in Triples } \cup { Wildcard[n] : n \in Nums }
    \cup { ContentRange(MaxInt, MaxInt, MaxInt), WildcardRange(MaxInt),
           <<" ">> \o ContentRange(0, 0, 1) }
    \cup Ungrammatical

InitParse ==
  /\ str \in ParseInputs
  /\ parsed = NoParse
  /\ req = [method |-> "GET", header |-> ProtoHeader]
  /\ bs = NoStore
  /\ ra = [meta |-> ZeroMeta, usebs |-> FALSE]
  /\ phase = "start"
  /\ ret = NoRet
  /\ probe = NoResponse
  /\ erred = FALSE
  /\ calls = [c \in Callers |-> Idle]
  /\ StoreIdle

\* first, last, length, err := contentrange.Parse(str)
ParseCall ==
  /\ parsed = NoParse
  /\ parsed' = Parse(str)
  /\ UNCHANGED <<str, readerVars, storeVars>>

NextParse == ParseCall

SpecParse == InitParse /\ [][NextParse]_vars

\* ------------------------------------------------- a Store on its own
\* Largest length of a source passed to ReadFrom
SrcLen == 4
\* The sources: a window of the byte pattern that ends or fails
Sources ==
  { Stream(Window(b, k), e) : b \in {0, 1}, k \in 0..SrcLen, e \in BOOLEAN }

\* The stores: a StoreMemory, a StoreFile, LimitedStores with and without
\* a secondary, and the default store
StoresUnderTest ==
  { NewStoreMemory, NewStoreFile,
    NewLimitedStore(NewStoreMemory, MemLimit, NewStoreFile),
    NewLimitedStore(NewStoreMemory, MemLimit, NoStore),
    NewDefaultStore }

InitStore ==
  /\ st \in StoresUnderTest
  /\ sret = NoSRet
  /\ lastFill = NoFill
  /\ req = [method |-> "GET", header |-> ProtoHeader]
  /\ bs = NoStore
  /\ ra = [meta |-> ZeroMeta, usebs |-> FALSE]
  /\ phase = "start"
  /\ ret = NoRet
  /\ probe = NoResponse
  /\ erred = FALSE
  /\ calls = [c \in Callers |-> Idle]
  /\ ParseIdle

\* A call on st that has returned: n and err, for ReadAt the arguments and
\* the bytes copied into p
SRet(op, plen, off, n, err, bytes) ==
  [op |-> op, plen |-> plen, off |-> off, n |-> n, err |-> err, bytes |-> bytes]

\* The ReadFrom before the one now made: the n it returned when it returned
\* no error and no Close followed it, otherwise -1
Prior ==
  IF lastFill.filled /\ lastFill.err = Nil /\ ~lastFill.closed THEN lastFill.n ELSE -1

\* n, err := st.ReadFrom(r)
StoreReadFrom(r, tmpOk) ==
  /\ \E o \in {Store_ReadFrom(st, r, tmpOk)} :
       /\ st' = o.store
       /\ sret' = SRet("ReadFrom", 0, 0, o.n, o.err, <<>>)
       /\ lastFill' = [filled |-> TRUE, src |-> r, tmpOk |-> tmpOk,
                       n |-> o.n, err |-> o.err, closed |-> FALSE,
                       prior |-> Prior, path |-> o.path]
  /\ UNCHANGED <<readerVars, parseVars>>

\* n, err := st.ReadAt(p, off), len(p) = plen
StoreReadAt(plen, off) ==
  /\ \E o \in {Store_ReadAt(st, plen, off)} :
       sret' = SRet("ReadAt", plen, off, o.n, o.err, o.bytes)
  /\ UNCHANGED <<st, lastFill, readerVars, parseVars>>

\* err := st.Close()
StoreClose(closeOk) ==
  /\ sret' = SRet("Close", 0, 0, 0, Store_CloseErr(st, closeOk), <<>>)
  /\ st' = Store_Close(st)
  /\ lastFill' = IF lastFill.filled THEN [lastFill EXCEPT !.closed = TRUE] ELSE lastFill
  /\ UNCHANGED <<readerVars, parseVars>>

NextStore ==
  \/ \E r \in Sources, tmpOk \in IF UsesFile(st) THEN BOOLEAN ELSE {TRUE} :
       StoreReadFrom(r, tmpOk)
  \/ \E plen \in Lengths, off \in {-1} \cup (0..SrcLen) : StoreReadAt(plen, off)
  \/ \E closeOk \in IF UsesFile(st) THEN BOOLEAN ELSE {TRUE} : StoreClose(closeOk)

SpecStore == InitStore /\ [][NextStore]_vars

\* ============================================================== claims
\* The call that has just returned reached the server and got a response
\* from which readAt derived Metadata (status 200 or 206, getMeta returned).
Validated == ret.sent /\ ret.resp.status \in {StatusOK, StatusPartialContent}
               /\ ~getMetaPanics(ret.resp)
\* The Metadata readAt derived from that response
Derived == getMeta(ret.resp)
\* The active store of the caller's Store holds data (it was filled and has
\* not been closed since)
RECURSIVE Holding(_)
Holding(s) ==
  CASE s.kind \in {"mem", "file"} -> s.has
    [] s.kind = "limited" ->
         s.s # "nil" /\ Holding(IF s.s = "primary" THEN s.primary ELSE s.secondary)
    [] OTHER -> FALSE

\* C1: New with a prototype request whose method is not GET returns a nil
\* reader and an error, and sends no HTTP request.
C1_NonGetRejected ==
  (ret.op = "New" /\ req.method # "GET") =>
     /\ phase = "failed"
     /\ ret.reader = Nil
     /\ ret.err = "invalid HTTP method"
     /\ ~ret.sent
C1_Witness == ret.op = "New" /\ req.method = "POST" /\ phase = "failed"

\* C2: New sends one probe with Range: bytes=0-0; whenever the probe fails
\* (transport error, bad status, malformed or mismatching 206, store fill
\* error) New returns nil and the error; a reader is returned only with its
\* Metadata initialized from a successful probe.
C2_ProbeFailureIsError ==
  (ret.op = "New" /\ req.method = "GET") =>
     /\ ret.sent
     /\ ret.wire = <<"b", "y", "t", "e", "s", "=", "0", "-", "0">>
     /\ \/ /\ phase = "failed"
           /\ ret.reader = Nil
           /\ ret.err \notin {Nil, "panic"}
        \/ /\ phase = "ready"
           /\ ret.reader = "ra"
           /\ ret.err = Nil
           /\ Validated
           /\ ra.meta.lastModified = Derived.lastModified
           /\ ra.meta.etag = Derived.etag
           /\ ra.meta.contentType = Derived.contentType
           /\ ra.meta.size \in {Derived.size, Len(ret.resp.body)}

\* C3: a probe answered with status 200 while no Store was supplied makes New
\* fail with ErrNoRange and return a nil reader.
C3_NoRangeNoStore ==
  (ret.op = "New" /\ ret.sent /\ ret.resp.status = StatusOK /\ bs = NoStore) =>
     /\ phase = "failed"
     /\ ret.reader = Nil
     /\ ret.err = "ErrNoRange"
C3_Witness ==
  ret.op = "New" /\ ret.sent /\ ret.resp.status = StatusOK /\ bs = NoStore
    /\ Len(ret.resp.body) = DataLen

\* C4: in fallback mode (probe answered 200, Store supplied, New succeeded)
\* every later ReadAt(p, off), off >= 0, on the Store as the fill left it
\* returns exactly the bytes of the probe's body at [off, off+len(p)), cut
\* short with io.EOF at the end of the body, and sends no HTTP request.
C4_FallbackServesBody ==
  (ret.op = "ReadAt" /\ ra.usebs /\ Holding(bs) /\ ret.off >= 0) =>
     LET body == probe.body
         n == Min(ret.plen, Max(0, Len(body) - ret.off))
     IN /\ probe.status = StatusOK
        /\ ~ret.sent
        /\ ret.n = n
        /\ ret.written = SubSeq(body, ret.off + 1, ret.off + n)
        /\ (n < ret.plen => ret.err = "EOF")
        /\ (n = ret.plen /\ n > 0 => ret.err = Nil)
        /\ ret.err \in {Nil, "EOF"}
C4_Witness ==
  /\ ret.op = "ReadAt" /\ ra.usebs /\ Holding(bs)
  /\ ret.off = 1 /\ ret.plen = 2 /\ ret.n = 1 /\ ret.written = <<Byte(1)>>

\* C5: a probe answered with status 200, with a Store whose fill succeeds,
\* makes New return a reader and no error, whatever the length of the body,
\* zero included.
C5_FallbackAnyLength ==
  (ret.op = "New" /\ ret.sent /\ ret.resp.status = StatusOK /\ ret.fill = Nil) =>
     /\ phase = "ready"
     /\ ret.reader = "ra"
     /\ ret.err = Nil

\* C6: a 206 response whose Content-Length is not last-first+1 of its
\* Content-Range makes the read fail with 0 bytes, nothing copied, whatever
\* the body holds; the error is the content-length mismatch when the response
\* passes the checks made before it (validation, range); New fails on it.
C6_LengthMismatchFails ==
  LET r == ret.resp
      cr == Parse(r.contentRange)
  IN (/\ ret.sent /\ r.status = StatusPartialContent
      /\ r.contentRange # <<>> /\ cr.err = Nil
      /\ r.contentLength # cr.last - cr.first + 1) =>
       /\ ret.n = 0
       /\ ret.err \notin {Nil, "EOF", "panic"}
       /\ ret.written = <<>>
       /\ ret.op = "New" => (phase = "failed" /\ ret.reader = Nil)
       /\ ( /\ ret.op = "ReadAt" => ret.err # "ErrValidationFailed"
            /\ cr.first = ret.q.reqFirst
            /\ cr.last <= ret.q.reqLast )
            => ret.err = "content-length mismatch in http response"
C6_Witness ==
  /\ ret.op = "ReadAt" /\ ret.sent /\ ret.resp.status = StatusPartialContent
  /\ ret.err = "content-length mismatch in http response"
  /\ ret.resp.contentLength = 1 /\ Len(ret.resp.body) = 2

\* C7: a ReadAt after construction whose response yields Metadata that
\* differs from the probe's in size, Last-Modified or ETag returns
\* ErrValidationFailed with 0 bytes and copies nothing.
C7_ChangeFailsValidation ==
  (/\ ret.op = "ReadAt" /\ Validated
   /\ \/ Derived.size # ra.meta.size
      \/ Derived.lastModified # ra.meta.lastModified
      \/ Derived.etag # ra.meta.etag) =>
     /\ ret.err = "ErrValidationFailed"
     /\ ret.n = 0
     /\ ret.written = <<>>
C7_Witness ==
  /\ ret.op = "ReadAt" /\ Validated
  /\ Derived.size = ra.meta.size /\ Derived.etag = ra.meta.etag
  /\ ra.meta.lastModified = "Mon" /\ Derived.lastModified = "Tue"
  /\ ret.err = "ErrValidationFailed"

\* C8: a Content-Type that differs from the probe's makes a later ReadAt
\* return ErrValidationFailed.
C8_ContentTypeChangeDetected ==
  (ret.op = "ReadAt" /\ Validated /\ Derived.contentType # ra.meta.contentType) =>
     ret.err = "ErrValidationFailed"

\* A strong validator: a non-empty entity tag without the weak prefix W/
IsStrong(etag) == etag # <<>> /\ etag[1] = "\""

\* C9 (as claimed): a response passes validation only if its ETag and the
\* probe's are identical, non-empty and strong.
C9_StrongValidator ==
  (ret.op = "ReadAt" /\ Validated /\ ret.err # "ErrValidationFailed") =>
     /\ Derived.etag = ra.meta.etag
     /\ IsStrong(Derived.etag)
\* C9 (amended): a response passes validation exactly if its size,
\* Last-Modified and ETag equal the probe's as plain values; an empty ETag
\* matches an empty one and a weak ETag the identical weak one.
C9_PlainEquality ==
  (ret.op = "ReadAt" /\ Validated) =>
     (ret.err # "ErrValidationFailed"
        <=> /\ Derived.size = ra.meta.size
            /\ Derived.lastModified = ra.meta.lastModified
            /\ Derived.etag = ra.meta.etag)
C9_Witness ==
  /\ ret.op = "ReadAt" /\ Validated
  /\ ra.meta.etag = <<>> /\ Derived.etag = <<>>
  /\ ret.err = Nil /\ ret.n = 2

\* C10: in range mode with a known size, ReadAt with a non-empty buffer at an
\* offset >= size returns 0 bytes and io.EOF and sends no HTTP request.
C10_ReadPastEndIsEOF ==
  (/\ ret.op = "ReadAt" /\ ~ra.usebs /\ ra.meta.size # -1
   /\ ret.plen > 0 /\ ret.off >= ra.meta.size) =>
     /\ ret.n = 0
     /\ ret.err = "EOF"
     /\ ~ret.sent

\* The response of the call that has just returned states the Metadata the
\* reader stored at the probe (it passes validate).
Unchanged ==
  /\ Validated
  /\ Derived.size = ra.meta.size
  /\ Derived.lastModified = ra.meta.lastModified
  /\ Derived.etag = ra.meta.etag

\* C11: in range mode with a known size, ReadAt(p, off) with 0 <= off < size
\* and off+len(p) > size sends Range: bytes=off-(size-1); when the server
\* returns that window in full (of the unchanged resource) the call returns
\* n = size-off bytes, the bytes of the window, and io.EOF.
C11_ClampedReadIsEOF ==
  LET size == ra.meta.size
      r == ret.resp
      cr == Parse(r.contentRange)
  IN (/\ ret.op = "ReadAt" /\ ~ra.usebs /\ size # -1
      /\ 0 <= ret.off /\ ret.off < size /\ ret.off + ret.plen > size) =>
       /\ ret.sent
       /\ ret.wire = RangeHeader(ret.off, size - 1)
       /\ (/\ r.status = StatusPartialContent /\ Unchanged
           /\ r.contentRange # <<>> /\ cr.err = Nil
           /\ cr.first = ret.off /\ cr.last = size - 1
           /\ r.contentLength = size - ret.off
           /\ Len(r.body) >= size - ret.off) =>
             /\ ret.n = size - ret.off
             /\ ret.err = "EOF"
             /\ ret.written = SubSeq(r.body, 1, size - ret.off)
C11_Witness ==
  /\ ret.op = "ReadAt" /\ ~ra.usebs /\ ra.meta.size = DataLen
  /\ ret.off = DataLen - 1 /\ ret.plen = 2
  /\ ret.wire = RangeHeader(DataLen - 1, DataLen - 1)
  /\ ret.n = 1 /\ ret.err = "EOF" /\ ret.written = <<Byte(DataLen - 1)>>

\* C12: a ReadAt that returns n < len(p) returns a non-nil error, in range
\* mode and in fallback mode, also after the caller closed the Store.
C12_ShortReadHasError ==
  (ret.op = "ReadAt" /\ ret.n < ret.plen) => ret.err # Nil

\* C13: ReadAt with a zero-length buffer returns (0, nil) without an HTTP
\* request, for every offset, in range mode and in fallback mode.
C13_EmptyBufferIsNoop ==
  (ret.op = "ReadAt" /\ ret.plen = 0) =>
     /\ ret.n = 0
     /\ ret.err = Nil
     /\ ~ret.sent

\* The last byte a ReadAt(p, off), len(p) = plen, asks for in range mode:
\* off+plen-1, or size-1 when the size is known and smaller
OwnLast(plen, off) ==
  IF ra.meta.size # -1 /\ off + plen - 1 > ra.meta.size - 1
    THEN ra.meta.size - 1 ELSE off + plen - 1

\* C14: for ReadAt calls running concurrently on one reader, under every
\* interleaving the request of each call carries the Range header computed
\* from its own offset and length, from the moment it is set to the moment
\* it is sent, and a call for a range inside the resource returns exactly
\* the content at its own offset with no error (from the Store, without a
\* request, in fallback mode).
C14_ConcurrentCallsIndependent ==
  \A c \in Callers :
    LET call == calls[c]
    IN /\ call.pc = "ranged" =>
            Deref(call.q.req.header)["Range"]
              = RangeHeader(call.off, OwnLast(call.plen, call.off))
       /\ (call.pc = "done" /\ call.sent) =>
            call.wire = RangeHeader(call.off, OwnLast(call.plen, call.off))
       /\ (call.pc = "done" /\ call.plen > 0 /\ call.off + call.plen <= DataLen) =>
            /\ call.sent = ~ra.usebs
            /\ call.n = call.plen
            /\ call.err = Nil
            /\ call.written = Window(call.off, call.plen)
C14_Witness ==
  /\ ~ra.usebs
  /\ calls[1].pc = "done" /\ calls[1].sent /\ calls[1].off = 0
  /\ calls[1].n = 1 /\ calls[1].written = <<Byte(0)>>
  /\ calls[2].pc = "done" /\ calls[2].sent /\ calls[2].off = 1
  /\ calls[2].n = 1 /\ calls[2].written = <<Byte(1)>>

\* C15: the prototype request of the caller is never mutated: after New and
\* under every interleaving of ReadAt calls its Header map has the content
\* it had at construction, without a Range header, and every call sets
\* Range on a map of its own.
C15_PrototypeUntouched ==
  /\ req.header = ProtoHeader
  /\ "Range" \notin DOMAIN req.header.kv
  /\ \A c \in Callers :
       calls[c].pc = "ranged" =>
         /\ calls[c].q.req.header.id # req.header.id
         /\ "Range" \in DOMAIN calls[c].q.req.header.kv
C15_Witness ==
  /\ req.header = ProtoHeader
  /\ calls[1].pc = "done" /\ calls[1].sent
  /\ calls[1].wire = RangeHeader(1, 1)
  /\ calls[2].pc = "ranged"
  /\ calls[2].q.req.header.kv["Range"] = RangeHeader(0, 0)

\* C16: Metadata and the fallback-mode flag are write-once: once New has
\* returned a reader no step (a ReadAt that succeeds or fails, a Close of
\* the Store) changes them, so Size(), ContentType(), LastModified() and the
\* mode stay what they were when New returned.
C16_MetaWriteOnce ==
  [][phase = "ready" => (ra'.meta = ra.meta /\ ra'.usebs = ra.usebs)]_vars
C16_Witness ==
  /\ ret.op = "ReadAt" /\ Validated /\ ret.resp.status = StatusOK
  /\ Derived.size # ra.meta.size /\ Derived.lastModified # ra.meta.lastModified
  /\ bs # NoStore /\ ~ra.usebs

\* C17: a status-200 response to a ReadAt after the probe is fatal for that
\* call: it returns an error with 0 bytes and copies nothing, the Store is
\* not filled and the reader does not switch to fallback mode, with or
\* without a Store.
C17_LateFullBodyIsFatal ==
  [][(ret'.op = "ReadAt" /\ ret'.sent /\ ret'.resp.status = StatusOK /\ ret = NoRet) =>
       /\ ret'.n = 0
       /\ ret'.err \notin {Nil, "EOF", "panic"}
       /\ ret'.written = <<>>
       /\ bs' = bs
       /\ ra' = ra /\ ~ra'.usebs
       /\ phase' = "ready"]_vars
C17_Witness ==
  /\ ret.op = "ReadAt" /\ ret.sent /\ ret.resp.status = StatusOK
  /\ Unchanged /\ Len(ret.resp.body) = DataLen
  /\ bs = NewDefaultStore
  /\ ret.err = "server suddenly stopped supporting range requests"

\* C18: a 206 response is accepted only if the first of its Content-Range
\* is the requested first and its last is not beyond the requested last: a
\* response that starts elsewhere or states a larger window makes the call
\* fail with 0 bytes and nothing copied, with the different-range error when
\* the response passes validation; a call that returns bytes had a response
\* within the requested range.
C18_RangeChecked ==
  LET r == ret.resp
      cr == Parse(r.contentRange)
      within == cr.first = ret.q.reqFirst /\ cr.last <= ret.q.reqLast
  IN (/\ ret.sent /\ r.status = StatusPartialContent
      /\ r.contentRange # <<>> /\ cr.err = Nil) =>
       /\ ~within =>
            /\ ret.n = 0
            /\ ret.written = <<>>
            /\ ret.err \in {"ErrValidationFailed", "received different range than requested"}
            /\ (ret.op = "New" \/ Unchanged) =>
                  ret.err = "received different range than requested"
       /\ (ret.n > 0 \/ ret.err = Nil) => within
C18_Witness ==
  LET cr == Parse(ret.resp.contentRange)
  IN /\ ret.op = "ReadAt" /\ ret.sent /\ ret.resp.status = StatusPartialContent
     /\ ret.resp.contentRange # <<>> /\ cr.err = Nil
     /\ cr.first = ret.q.reqFirst /\ cr.last = ret.q.reqLast + 1
     /\ ret.resp.contentLength = ret.q.plen + 1
     /\ ret.err = "received different range than requested"

\* C19: a 206 response without a Content-Range header, or with one that
\* does not parse, makes the call fail with the missing-header or the parse
\* error, not with ErrValidationFailed, on the probe and on later reads.
C19_BadContentRangeIsProtocolError ==
  LET r == ret.resp
  IN (/\ ret.sent /\ r.status = StatusPartialContent
      /\ (r.contentRange = <<>> \/ Parse(r.contentRange).err # Nil)) =>
       /\ ret.n = 0
       /\ ret.err = IF r.contentRange = <<>>
                      THEN "no content-range header in partial response"
                      ELSE Parse(r.contentRange).err
       /\ ret.err # "panic"

\* C20: when a valid 206 response delivers fewer bytes than the buffer holds
\* (a shorter window or a body that ends early, without a read error) the
\* call returns n = the number of bytes it copied into the buffer, together
\* with io.EOF.
C20_ReturnsBytesCopied ==
  LET r == ret.resp
      cr == Parse(r.contentRange)
  IN (/\ ret.op = "ReadAt" /\ ret.sent /\ r.status = StatusPartialContent
      /\ Unchanged /\ r.contentRange # <<>> /\ cr.err = Nil
      /\ ~RangeMismatch(cr.first, cr.last, ret.q.reqFirst, ret.q.reqLast)
      /\ ~LengthMismatch(r, cr.first, cr.last)
      /\ ~r.bodyErr /\ Len(r.body) < ret.q.plen) =>
       /\ ret.written = r.body
       /\ ret.n = Len(ret.written)
       /\ ret.err = "EOF"

\* C21: Parse maps every "bytes F-L/N" to (F, L, N) with no error, every
\* "bytes F-L/*" to (F, L, -1) and every "bytes */N" to (-1, -1, N), for
\* the non-negative decimal F, L, N an int64 holds.
C21_ParseGrammar ==
  parsed # NoParse =>
    /\ \A t \in Triples : str = Full[t] => parsed = PR(t[1], t[2], t[3], Nil)
    /\ \A n \in Nums : str = Wildcard[n] => parsed = PR(-1, -1, n, Nil)
    /\ str = ContentRange(MaxInt, MaxInt, MaxInt) => parsed = PR(MaxInt, MaxInt, MaxInt, Nil)
    /\ str = WildcardRange(MaxInt) => parsed = PR(-1, -1, MaxInt, Nil)
C21_Witness ==
  /\ str = ContentRange(2, MaxNum, -1)
  /\ parsed = PR(2, MaxNum, -1, Nil)

\* C22: Parse returns an error, and does not crash, for every input outside
\* the grammar: a first token other than "bytes", three tokens of which the
\* second is not "*", and every token count other than 3 or 4, zero
\* included.
C22_ParseRejects ==
  LET fields == FieldsFunc(str)
  IN (/\ parsed # NoParse
      /\ \/ Len(fields) \notin {3, 4}
         \/ fields[1] # Str_bytes
         \/ Len(fields) = 3 /\ fields[2] # Str_star) =>
       parsed.err \notin {Nil, "panic"}

\* No store of s holds data: no buffer, no temp file
RECURSIVE HoldsNothing(_)
HoldsNothing(s) ==
  CASE s.kind = "mem" -> ~s.has /\ s.data = <<>>
    [] s.kind = "file" -> ~s.has /\ s.data = <<>> /\ s.size = 0
    [] s.kind = "limited" ->
         s.s = "nil" /\ HoldsNothing(s.primary) /\ HoldsNothing(s.secondary)
    [] OTHER -> TRUE

\* The bytes of the source of the most recent ReadFrom on st
FillData == lastFill.src.data

\* C23: LimitedStore.ReadFrom with a source shorter than the limit returns
\* the length of the source and no error, keeps every byte in the primary,
\* which is the active store that serves ReadAt, and does not fill the
\* secondary.
C23_ShortSourceStaysInPrimary ==
  (/\ sret.op = "ReadFrom" /\ st.kind = "limited"
   /\ Len(FillData) < st.limit /\ ~lastFill.src.err) =>
     /\ sret.n = Len(FillData)
     /\ sret.err = Nil
     /\ st.s = "primary"
     /\ st.primary.has /\ st.primary.data = FillData
     /\ HoldsNothing(st.secondary)
     /\ Store_ReadAt(st, Len(FillData) + 1, 0) = RA(Len(FillData), FillData, "EOF")
C23_Witness ==
  /\ sret.op = "ReadFrom" /\ st.kind = "limited" /\ st.secondary = NewStoreFile
  /\ Len(FillData) = MemLimit - 1 /\ ~lastFill.src.err
  /\ st.s = "primary" /\ sret.n = MemLimit - 1

\* ReadFrom on the store s succeeds for a source of len bytes that ends
\* without error: temp files can be made and no limit without a secondary
\* is reached
RECURSIVE Accepts(_, _, _)
Accepts(s, len, tmpOk) ==
  CASE s.kind = "mem" -> TRUE
    [] s.kind = "file" -> tmpOk
    [] s.kind = "limited" ->
         /\ Accepts(s.primary, Min(len, s.limit), tmpOk)
         /\ len >= s.limit => Accepts(s.secondary, len, tmpOk)
    [] OTHER -> FALSE

\* C24: LimitedStore.ReadFrom with a source longer than the limit and a
\* secondary (that takes the source) returns the full length of the source,
\* leaves the secondary as the active store, holding every byte of the
\* source in order, none lost and none twice, and the primary closed.
C24_LongSourceMigrates ==
  (/\ sret.op = "ReadFrom" /\ st.kind = "limited"
   /\ Len(FillData) > st.limit /\ ~lastFill.src.err
   /\ st.secondary # NoStore /\ Accepts(st.secondary, Len(FillData), lastFill.tmpOk)) =>
     /\ sret.n = Len(FillData)
     /\ sret.err = Nil
     /\ st.s = "secondary"
     /\ HoldsNothing(st.primary)
     /\ Store_ReadAt(st.secondary, Len(FillData) + 1, 0)
          = RA(Len(FillData), FillData, "EOF")
     /\ Store_ReadAt(st, Len(FillData) + 1, 0) = RA(Len(FillData), FillData, "EOF")
C24_Witness ==
  /\ sret.op = "ReadFrom" /\ st.kind = "limited" /\ st.secondary.kind = "file"
  /\ Len(FillData) = MemLimit + 2 /\ ~lastFill.src.err
  /\ st.s = "secondary" /\ st.secondary.data = FillData /\ sret.n = MemLimit + 2

\* C25: LimitedStore.ReadFrom with a source longer than the limit and no
\* secondary fails with ErrStoreLimit, and every ReadAt on the LimitedStore
\* after that returns zero bytes: the prefix written to the primary is never
\* served.
C25_LimitExceededServesNothing ==
  (/\ st.kind = "limited" /\ st.secondary = NoStore
   /\ lastFill.filled /\ Len(FillData) > st.limit /\ ~lastFill.src.err) =>
     /\ lastFill.err = "ErrStoreLimit"
     /\ sret.op = "ReadAt" => (sret.n = 0 /\ sret.bytes = <<>>)

\* C26: a source of exactly limit bytes is exhausted within the budget:
\* LimitedStore.ReadFrom succeeds, without ErrStoreLimit, and keeps the
\* primary as the active store without filling the secondary.
C26_ExactLimitFits ==
  (/\ sret.op = "ReadFrom" /\ st.kind = "limited"
   /\ Len(FillData) = st.limit /\ ~lastFill.src.err) =>
     /\ sret.err = Nil
     /\ sret.n = st.limit
     /\ st.s = "primary"
     /\ HoldsNothing(st.secondary)

\* C27: Close is idempotent and safe on a store that was never filled, for
\* StoreMemory, StoreFile and LimitedStore: on a store that was never filled
\* or has just been closed, Close returns nil and leaves the store as it is,
\* with no buffer, no temp file, size 0 and ReadAt serving no bytes.
C27_CloseIdempotent ==
  (sret.op = "Close" \/ ~lastFill.filled) =>
     /\ \A closeOk \in BOOLEAN : Store_CloseErr(st, closeOk) = Nil
     /\ Store_Close(st) = st
     /\ HoldsNothing(st)
     /\ \A plen \in Lengths, off \in 0..SrcLen : Store_ReadAt(st, plen, off).n = 0
     /\ (sret.op = "Close" /\ ~lastFill.filled) => sret.err = Nil
C27_Witness ==
  /\ sret.op = "Close" /\ lastFill.filled /\ lastFill.closed
  /\ st.kind = "limited" /\ Len(FillData) > st.limit /\ lastFill.err = Nil
  /\ HoldsNothing(st)

\* The leaf store a ReadAt on s is served by: s itself, or through the
\* active stores of LimitedStores; NoStore when s has no active store
RECURSIVE Active(_)
Active(s) ==
  IF s.kind # "limited" THEN s
  ELSE IF s.s = "primary" THEN Active(s.primary)
  ELSE IF s.s = "secondary" THEN Active(s.secondary)
  ELSE NoStore
\* Size() of a StoreMemory or StoreFile
Size(s) == IF s.kind = "mem" THEN StoreMemory_Size(s) ELSE StoreFile_Size(s)
\* What a ReadAt of plen > 0 bytes at off returns from a store that holds
\* exactly data: the bytes of data from off, io.EOF when they are fewer
FromData(data, plen, off) ==
  LET b == Take(Drop(data, off), plen)
  IN RA(Len(b), b, IF Len(b) < plen THEN "EOF" ELSE Nil)

\* C28: whatever fills and closes came before, after a ReadFrom that returned
\* no error and no Close since, ReadAt on a StoreMemory, StoreFile or
\* LimitedStore returns exactly the bytes of that ReadFrom's source, and the
\* Size of the store that serves them is the length of that source.
C28_RefillReplaces ==
  (lastFill.filled /\ lastFill.err = Nil /\ ~lastFill.closed) =>
     /\ \A plen \in 1..(SrcLen + 1), off \in 0..(SrcLen + 1) :
          Store_ReadAt(st, plen, off) = FromData(FillData, plen, off)
     /\ \A off \in 0..(SrcLen + 1) : Store_ReadAt(st, 0, off).n = 0
     /\ Active(st).kind \in {"mem", "file"}
     /\ Size(Active(st)) = Len(FillData)
     /\ (sret.op = "ReadAt" /\ sret.plen > 0 /\ sret.off >= 0) =>
          RA(sret.n, sret.bytes, sret.err) = FromData(FillData, sret.plen, sret.off)
\* A LimitedStore was filled with a source that went to its secondary, then
\* with a shorter one that fits its primary, and a ReadAt has returned bytes.
C28_Witness ==
  /\ st.kind = "limited" /\ st.secondary # NoStore /\ st.s = "primary"
  /\ lastFill.filled /\ lastFill.err = Nil /\ ~lastFill.closed
  /\ lastFill.prior > st.limit
  /\ Len(FillData) > 0 /\ Len(FillData) < st.limit
  /\ sret.op = "ReadAt" /\ sret.n > 0

\* C29: in every state of a StoreFile, StoreMemory or LimitedStore (never
\* filled, filled, filled with ErrStoreLimit, closed), a ReadAt with
\* len(b) > 0 that returns n < len(b) returns a non-nil error.
C29_StoreShortReadHasError ==
  (sret.op = "ReadAt" /\ sret.plen > 0 /\ sret.n < sret.plen) => sret.err # Nil

\* What readAt makes of the response to the first request of the ReadAt
\* that has just returned
FirstOutcome == Respond(ra, bs, ret.q, ret.off, FALSE, ret.resp, TRUE)

\* C30: a ReadAt passes at most one request to client.Do, and when the
\* response to it is a failure (transport error, status other than 200/206,
\* validation failure, protocol error) the call returns that error and no
\* bytes to its caller, without a second request.
C30_OneRequestNoRetry ==
  ret.op = "ReadAt" =>
    /\ ret.reqs <= 1
    /\ ret.sent <=> ret.reqs = 1
    /\ (ret.sent /\ FirstOutcome.err # Nil) =>
         /\ ret.err = FirstOutcome.err
         /\ ret.n = FirstOutcome.n
         /\ ret.err # "panic"

\* C31: the reader invokes the Store's ReadFrom only in New, only on a
\* probe answered with status 200 and only once in that call, and New is
\* never run again, so at most once in the reader's lifetime; a ReadAt of the
\* Store is invoked either in New right after that ReadFrom returned, or by
\* a ReadAt of a reader whose New returned after filling the Store; a reader
\* whose probe was answered 206 invokes no method of the Store and leaves
\* it as it was.
C31_FillOnceInProbe ==
  [][/\ phase' = "start" => phase = "start"
     /\ (ret' # ret /\ ret'.op \in {"New", "ReadAt"}) =>
          /\ ret'.ops \in {<<>>, <<"ReadFrom">>, <<"ReadFrom", "ReadAt">>, <<"ReadAt">>}
          /\ (ret'.ops # <<>> /\ ret'.ops[1] = "ReadFrom") =>
               /\ phase = "start" /\ ret'.op = "New"
               /\ ret'.sent /\ ret'.resp.status = StatusOK
          /\ ret'.ops = <<"ReadAt">> =>
               /\ ret'.op = "ReadAt" /\ phase = "ready" /\ ra.usebs
               /\ probe.status = StatusOK
          /\ (ret'.op = "ReadAt" /\ probe.status = StatusPartialContent) =>
               /\ ret'.ops = <<>>
               /\ bs' = bs
          /\ (ret'.op = "New" /\ ret'.sent /\ ret'.resp.status = StatusPartialContent) =>
               /\ ret'.ops = <<>>
               /\ bs' = bs]_vars
\* A reader in fallback mode has served a ReadAt from the Store that New
\* filled.
C31_Witness ==
  /\ ret.op = "ReadAt" /\ ret.ops = <<"ReadAt">> /\ ret.n > 0
  /\ probe.status = StatusOK /\ ra.usebs /\ Holding(bs)

\* C32: in one ReadFrom of a LimitedStore the active reference is first set
\* to the primary and afterwards at most changed to the secondary: once it is
\* the secondary it is not the primary again before the call returns, and the
\* store that is active when the call returns is the last one it was set to.
C32_ActiveMovesForward ==
  (lastFill.filled /\ st.kind = "limited") =>
     /\ Len(lastFill.path) >= 1
     /\ lastFill.path[1] = "primary"
     /\ \A i \in 1..Len(lastFill.path) : lastFill.path[i] \in {"primary", "secondary"}
     /\ \A i \in 1..Len(lastFill.path), j \in 1..Len(lastFill.path) :
          (i < j /\ lastFill.path[i] = "secondary") => lastFill.path[j] # "primary"
     /\ ("secondary" \in {lastFill.path[i] : i \in 1..Len(lastFill.path)}) =>
          st.secondary # NoStore
     /\ ~lastFill.closed => st.s = lastFill.path[Len(lastFill.path)]
\* A ReadFrom of a LimitedStore moved the data to the secondary, after an
\* earlier ReadFrom had done the same.
C32_Witness ==
  /\ lastFill.filled /\ ~lastFill.closed /\ st.kind = "limited"
  /\ lastFill.path = <<"primary", "secondary">> /\ st.s = "secondary"
  /\ lastFill.prior > st.limit
  /\ sret.op = "ReadFrom"

\* The StoreFiles inside the store s
RECURSIVE FileStores(_)
FileStores(s) ==
  CASE s.kind = "file" -> {s}
    [] s.kind = "limited" -> FileStores(s.primary) \cup FileStores(s.secondary)
    [] OTHER -> {}

\* C33: a StoreFile has at most one temp file in existence, after any
\* ReadFrom and Close calls: one exactly when it holds a temp file, none
\* otherwise; after a ReadFrom there is one if the call created a file (also
\* on a refill, whose previous file is gone) and none if it could not; after
\* Close there is none and Size() is 0.
C33_OneTempFile ==
  /\ \A f \in FileStores(st) :
       /\ f.files = IF f.has THEN 1 ELSE 0
       /\ ~f.has => StoreFile_Size(f) = 0
  /\ st.kind = "file" =>
       /\ sret.op = "ReadFrom" => st.files = IF lastFill.tmpOk THEN 1 ELSE 0
       /\ sret.op = "Close" => (st.files = 0 /\ StoreFile_Size(st) = 0)
\* A StoreFile that held the file of an earlier fill has been filled again.
C33_Witness ==
  /\ st.kind = "file" /\ sret.op = "ReadFrom" /\ lastFill.tmpOk
  /\ lastFill.prior >= 1 /\ st.files = 1 /\ st.has

\* st is a two-tier store LimitedStore(A, L1, LimitedStore(B, L2, nil)) with
\* L1 < L2, as NewDefaultStore builds it
TwoTier ==
  /\ st.kind = "limited" /\ st.secondary.kind = "limited"
  /\ st.secondary.secondary = NoStore
  /\ st.limit < st.secondary.limit

ReaderSize == ra.meta.size
\* The ReadFrom by which New filled the Store with the body of the probe
ProbeFill == Store_ReadFrom(NewDefaultStore, Stream(probe.body, probe.bodyErr), TRUE)

\* C35: a reader in fallback mode was probed with status 200, and its Size()
\* is the byte count the Store's ReadFrom returned when that response had no
\* Content-Length (-1), and the Content-Length when it had one, whatever the
\* length of the body.
C35_FallbackSize ==
  (phase = "ready" /\ ra.usebs) =>
     /\ probe.status = StatusOK
     /\ ProbeFill.err = Nil
     /\ probe.contentLength = -1 => ReaderSize = ProbeFill.n
     /\ probe.contentLength # -1 => ReaderSize = probe.contentLength
\* New returned a reader in fallback mode for a 200 response without
\* Content-Length whose body filled the Store.
C35_Witness ==
  /\ ret.op = "New" /\ phase = "ready" /\ ra.usebs /\ ret.fill = Nil
  /\ probe.contentLength = -1 /\ Len(probe.body) = 1
  /\ ReaderSize = 1 /\ Holding(bs)

\* C36: whenever Parse returns an error, the triple it returns with it is
\* (-1, -1, -1).
C36_ErrorTripleIsMinusOne ==
  (parsed # NoParse /\ parsed.err \notin {Nil, "panic"}) =>
     (parsed.first = -1 /\ parsed.last = -1 /\ parsed.length = -1)

\* C37: after Close on an outermost LimitedStore no store under it holds
\* anything, whatever happened before (never filled, filled into the primary,
\* moved to the secondary, a fill that failed with ErrStoreLimit in this or
\* the nested tier, refills): no memory buffer, no temp file in existence,
\* no active store in any tier.
C37_CloseReleasesAllTiers ==
  (sret.op = "Close" /\ st.kind = "limited") =>
     /\ HoldsNothing(st.primary)
     /\ HoldsNothing(st.secondary)
     /\ st.s = "nil"
     /\ st.secondary.kind = "limited" => st.secondary.s = "nil"
     /\ \A f \in FileStores(st) : f.files = 0 /\ ~f.has
\* The default store was closed after a fill that the nested tier refused
\* with ErrStoreLimit, which followed a fill that had gone to the file.
C37_Witness ==
  /\ sret.op = "Close" /\ TwoTier
  /\ lastFill.filled /\ lastFill.closed /\ lastFill.tmpOk
  /\ lastFill.err = "ErrStoreLimit" /\ Len(FillData) > st.secondary.limit
  /\ lastFill.prior >= st.limit
  /\ HoldsNothing(st)

\* The response to the returned call r is what a server holding the
\* resource the reader m was made for sends for r's request: status 206,
\* headers that pass validation, the requested range with the matching
\* Content-Length and the bytes of that range
Matches(r, m) ==
  /\ r.sent /\ r.resp.status = StatusPartialContent
  /\ ~getMetaPanics(r.resp)
  /\ validate(m.meta, r.resp) = Nil
  /\ Parse(r.resp.contentRange).err = Nil
  /\ Parse(r.resp.contentRange).first = r.q.reqFirst
  /\ Parse(r.resp.contentRange).last = r.q.reqLast
  /\ r.resp.contentLength = r.q.plen
  /\ r.resp.body = Window(r.q.reqFirst, r.q.plen)

\* C38: a ReadAt that fails (transport error, bad status, validation
\* failure, protocol error) leaves the reader, the Store and the reader's
\* readiness as they were; and on a reader that has had failed ReadAts, a
\* ReadAt whose response matches the probe's Metadata and the request
\* returns all requested bytes, the right ones, with no error other than the
\* io.EOF of a clamped read.
C38_NoStickyFailure ==
  [][(ret'.op = "ReadAt" /\ ret' # ret) =>
       /\ Failed(ret') => (ra' = ra /\ bs' = bs /\ phase' = "ready" /\ erred')
       /\ (erred /\ Matches(ret', ra)) =>
            /\ ret'.n = ret'.q.plen
            /\ ret'.err = ret'.q.returnErr
            /\ ret'.written = Window(ret'.off, ret'.q.plen)
            /\ ra' = ra]_vars
\* After a ReadAt that failed, a ReadAt has returned all the bytes asked for.
C38_Witness ==
  /\ erred /\ ret.op = "ReadAt" /\ Matches(ret, ra)
  /\ ret.err = Nil /\ ret.plen = MaxLen /\ ret.n = ret.plen
  /\ ret.written = Window(ret.off, ret.plen)

\* C39: every request the reader sends carries Range: bytes=first-last with
\* 0 <= first <= last, first the caller's offset and last the offset plus
\* len(p) minus 1, or size-1 when the read is clamped, for every int64 offset
\* and every non-empty buffer.
C39_RangeHeaderWellFormed ==
  ret.sent =>
     /\ ret.wire = RangeHeader(ret.q.reqFirst, ret.q.reqLast)
     /\ 0 <= ret.q.reqFirst /\ ret.q.reqFirst <= ret.q.reqLast
     /\ ret.q.reqFirst = ret.off
     /\ \/ ret.q.reqLast = ret.off + ret.plen - 1
        \/ (ret.op = "ReadAt" /\ ra.meta.size # -1
              /\ ret.q.reqLast = ra.meta.size - 1 /\ ret.q.returnErr = "EOF")

\* C40: a 206 response from which ReadAt copies body bytes states a
\* Content-Range with requested first = first <= last <= requested last, a
\* window of at least one byte; a response with last < first is rejected,
\* also when its Content-Length is unknown (-1).
C40_AcceptedWindowNonEmpty ==
  LET cr == Parse(ret.resp.contentRange)
  IN (/\ ret.op = "ReadAt" /\ ret.sent
      /\ ret.resp.status = StatusPartialContent
      /\ ret.written # <<>>) =>
       /\ cr.err = Nil
       /\ cr.first = ret.q.reqFirst
       /\ cr.first <= cr.last
       /\ cr.last <= ret.q.reqLast
       /\ cr.last - cr.first + 1 >= 1

====
